---- MODULE Spec2Model ----
(***************************************************************************)
(* Booking lifecycle, totals and listing cursor of the spa booking API.    *)
(* The model follows routes/bookings.ts (the latest revision of the file), *)
(* utils/calc.ts and services/bookingCalendar.ts.                          *)
(*                                                                         *)
(* The document store is modelled by what the handlers use of it:          *)
(*   - col.add creates the document (the model follows one booking id);    *)
(*   - ref.get / ref.update are single atomic reads and field merges;      *)
(*   - db.runTransaction re-runs its function when the document it read    *)
(*     was written before the commit, or gives up (its attempts are the    *)
(*     store's to count: a failed commit may be either).                   *)
(* Every write of the handlers sets updatedAt to the server timestamp, so  *)
(* updatedAt (a per-document write stamp here) is also the document        *)
(* version the transaction compares at commit.                             *)
(***************************************************************************)
EXTENDS Integers, Sequences, FiniteSets, TLC

\* ------------------------------------------------------------- bounds
NumRequests == 2   \* requests served over a run, all of them concurrent
MaxPersons == 2    \* persons in an item list given to computeTotals

\* ------------------------------------------------------------- values
Statuses == {"pending", "confirmed", "canceled"}

\* what a caller may pass as a status; the last three are not statuses
StatusInputs == Statuses \cup {"paid", "", "PENDING", "done", "cancelled"}

\* calendarEventId / calendarHtmlLink removed by FieldValue.delete()
NoEvent == 0

\* outcome of a call that did not throw
Ok == [statusCode |-> 200, error |-> "none", ref |-> "none"]

\* an error thrown with err.statusCode = 400
ClientError(kind, what) == [statusCode |-> 400, error |-> kind, ref |-> what]

\* an error thrown with no statusCode: next(e) renders it as a 500
ServerFault(kind) == [statusCode |-> 500, error |-> kind, ref |-> "none"]

IsClientError(res) == res.statusCode >= 400 /\ res.statusCode < 500

\* ------------------------------------------------------------- lifecycle table
\* a table in which canceled is a dead end even for cancel
allowedNoRepeat(from) ==
  CASE from = "pending" -> {"confirmed", "canceled", "pending"}
    [] from = "confirmed" -> {"canceled", "confirmed"}
    [] OTHER -> {}

\* the transition a bug would add: confirming a canceled booking
allowedReopen(from) ==
  CASE from = "pending" -> {"confirmed", "canceled", "pending"}
    [] from = "confirmed" -> {"canceled", "confirmed"}
    [] from = "canceled" -> {"canceled", "confirmed"}
    [] OTHER -> {}

\* allowed[from] || []
allowed(from) ==
  CASE from = "pending" -> {"confirmed", "canceled", "pending"}
    [] from = "confirmed" -> {"canceled", "confirmed"}
    [] from = "canceled" -> {"canceled"}
    [] OTHER -> {}

\* a check that throws a plain Error, without statusCode
\* a validation that lets every transition through
assertTransitionUnchecked(from, to) == Ok

assertTransitionPlainError(from, to) ==
  IF to \notin allowed(from)
    THEN ServerFault("InvalidTransition")
    ELSE Ok

assertTransition(from, to) ==
  IF to \notin allowed(from)
    THEN ClientError("InvalidTransition", from)
    ELSE Ok

\* ------------------------------------------------------------- catalog
ProgramIds == {"p1", "px"}
PackageIds == {"k1", "kx"}

\* programs collection: p1 exists with two duration options, px does not
InitPrograms ==
  [p \in {"p1"} |->
     [name |-> "Thai", type |-> "massage", currency |-> "THB", isActive |-> TRUE,
      durationOptions |-> << [durationMinutes |-> 60, price |-> 500],
                             [durationMinutes |-> 90, price |-> 1200] >>]]

\* packages collection: k1 exists, kx does not
InitPackages ==
  [k \in {"k1"} |->
     [name |-> "Duo", description |-> "", packagePrice |-> 1200, numberOfPeople |-> 2,
      durationMinutes |-> 120, currency |-> "THB", isActive |-> TRUE]]

\* snapshotPrograms: the found documents only, keyed by id
snapshotPrograms(ids, programs) ==
  [p \in (ids \cap DOMAIN programs) |->
     [name |-> programs[p].name, type |-> programs[p].type,
      durationOptions |-> programs[p].durationOptions,
      currency |-> programs[p].currency, isActive |-> programs[p].isActive]]

\* snapshotPackages: the found documents only, keyed by id
snapshotPackages(ids, packages) ==
  [k \in (ids \cap DOMAIN packages) |->
     [name |-> packages[k].name, description |-> packages[k].description,
      packagePrice |-> packages[k].packagePrice,
      numberOfPeople |-> packages[k].numberOfPeople,
      durationMinutes |-> packages[k].durationMinutes,
      currency |-> packages[k].currency, isActive |-> packages[k].isActive]]

Abs(n) == IF n < 0 THEN 0 - n ELSE n

\* the duration option a nearest-match lookup would pick
findDurationNearest(program, duration) ==
  LET opts == program.durationOptions
      best == CHOOSE i \in 1..Len(opts) :
                \A j \in 1..Len(opts) :
                  Abs(opts[i].durationMinutes - duration)
                    <= Abs(opts[j].durationMinutes - duration)
  IN  << opts[best] >>

\* program.durationOptions.find(d => d.durationMinutes === item.durationSnapshot):
\* the first exact match as a one-element sequence, or the empty sequence
findDuration(program, duration) ==
  LET opts == program.durationOptions
      hits == {i \in 1..Len(opts) : opts[i].durationMinutes = duration}
  IN  IF hits = {} THEN << >>
      ELSE << opts[CHOOSE i \in hits : \A j \in hits : i <= j] >>

mapItemProgramToSnapshot(item, program) ==
  LET d == findDuration(program, item.durationSnapshot)
  IN  [programId |-> item.programId, qty |-> item.qty,
       typeSnapshot |-> program.type, priceSnapshot |-> d[1].price,
       nameSnapshot |-> program.name,
       durationSnapshot |-> d[1].durationMinutes,
       currencySnapshot |-> program.currency]

mapItemPackageToSnapshot(item, pkg) ==
  [packageId |-> item.packageId, qty |-> item.qty,
   priceSnapshot |-> pkg.packagePrice, nameSnapshot |-> pkg.name,
   numberOfPeopleSnapshot |-> pkg.numberOfPeople,
   durationSnapshot |-> pkg.durationMinutes,
   currencySnapshot |-> pkg.currency]

\* ------------------------------------------------------------- snapshot pipeline
\* the error the map callback of a program selection throws, Ok when none
programSelectionError(p, programsMap) ==
  IF p.programId \notin DOMAIN programsMap
    THEN ClientError("ProgramNotFound", p.programId)
  ELSE IF findDuration(programsMap[p.programId], p.durationSnapshot) = << >>
    THEN ClientError("DurationNotFound", ToString(p.durationSnapshot))
  ELSE Ok

\* the error the map callback of a package selection throws, Ok when none
packageSelectionError(k, packagesMap) ==
  IF k.packageId \notin DOMAIN packagesMap
    THEN ClientError("PackageNotFound", k.packageId)
    ELSE Ok

\* the selections of one person in the order the callbacks run:
\* programs first, then packages
personErrors(it, programsMap, packagesMap) ==
  [i \in 1..Len(it.programs) |-> programSelectionError(it.programs[i], programsMap)]
  \o [i \in 1..Len(it.packages) |-> packageSelectionError(it.packages[i], packagesMap)]

RECURSIVE itemsErrors(_, _, _)
itemsErrors(items, programsMap, packagesMap) ==
  IF items = << >> THEN << >>
  ELSE personErrors(Head(items), programsMap, packagesMap)
       \o itemsErrors(Tail(items), programsMap, packagesMap)

\* the first exception of body.items.map(...), Ok when every selection resolves
snapshotError(items, programsMap, packagesMap) ==
  LET errs == SelectSeq(itemsErrors(items, programsMap, packagesMap),
                        LAMBDA e : e # Ok)
  IN  IF errs = << >> THEN Ok ELSE Head(errs)

\* body.items.map(it => ({personName, programs: ..., packages: ...}));
\* evaluated only when snapshotError is Ok
snapshotItems(items, programsMap, packagesMap) ==
  [n \in 1..Len(items) |->
     [personName |-> items[n].personName,
      programs |-> [i \in 1..Len(items[n].programs) |->
                      mapItemProgramToSnapshot(items[n].programs[i],
                        programsMap[items[n].programs[i].programId])],
      packages |-> [i \in 1..Len(items[n].packages) |->
                      mapItemPackageToSnapshot(items[n].packages[i],
                        packagesMap[items[n].packages[i].packageId])]]]

\* for (const it of items) for (const p of it.programs) allProgramIds.add(p.programId)
allProgramIds(items) ==
  UNION {{items[n].programs[i].programId : i \in 1..Len(items[n].programs)} :
           n \in 1..Len(items)}

\* for (const it of items) for (const p of it.packages) allPackageIds.add(p.packageId)
allPackageIds(items) ==
  UNION {{items[n].packages[i].packageId : i \in 1..Len(items[n].packages)} :
           n \in 1..Len(items)}

\* ------------------------------------------------------------- totals
RECURSIVE SumSeq(_)
SumSeq(s) == IF s = << >> THEN 0 ELSE Head(s) + SumSeq(Tail(s))

\* utils/calc.ts: a program adds priceSnapshot * qty, a package adds priceSnapshot
computeTotals(items) ==
  LET personSubtotal(it) ==
        SumSeq([i \in 1..Len(it.programs) |->
                  it.programs[i].priceSnapshot * it.programs[i].qty])
        + SumSeq([i \in 1..Len(it.packages) |-> it.packages[i].priceSnapshot])
      subtotal == SumSeq([n \in 1..Len(items) |-> personSubtotal(items[n])])
  IN  [subtotal |-> subtotal, grandTotal |-> subtotal]

\* the totals POST /quick stores with its empty item list
QuickTotals == [price |-> 0, currency |-> "THB"]

\* ------------------------------------------------------------- request inputs
\* one person, program 500 + package 1200: the 1700 scenario. The client also
\* sends a priceSnapshot of its own, which the schema allows.
ItemsA ==
  << [personName |-> "Ann",
      programs |-> << [programId |-> "p1", qty |-> 1, durationSnapshot |-> 60,
                       priceSnapshot |-> 1] >>,
      packages |-> << [packageId |-> "k1", qty |-> 1] >>] >>

\* two persons, quantities of 2
ItemsB ==
  << [personName |-> "Ann",
      programs |-> << [programId |-> "p1", qty |-> 2, durationSnapshot |-> 90,
                       priceSnapshot |-> 1] >>,
      packages |-> << >>],
     [personName |-> "Bob",
      programs |-> << >>,
      packages |-> << [packageId |-> "k1", qty |-> 2] >>] >>

\* a program id that is not in the catalog
ItemsNoProgram ==
  << [personName |-> "Ann",
      programs |-> << [programId |-> "px", qty |-> 1, durationSnapshot |-> 60,
                       priceSnapshot |-> 1] >>,
      packages |-> << >>] >>

\* a duration between the two options of p1
ItemsNoDuration ==
  << [personName |-> "Ann",
      programs |-> << [programId |-> "p1", qty |-> 1, durationSnapshot |-> 70,
                       priceSnapshot |-> 1] >>,
      packages |-> << >>] >>

\* a package id that is not in the catalog, after a program that resolves
ItemsNoPackage ==
  << [personName |-> "Ann",
      programs |-> << [programId |-> "p1", qty |-> 1, durationSnapshot |-> 60,
                       priceSnapshot |-> 1] >>,
      packages |-> << [packageId |-> "kx", qty |-> 1] >>] >>

ValidItems == {ItemsA, ItemsB}
InvalidItems == {ItemsNoProgram, ItemsNoDuration, ItemsNoPackage}

ContactA == [name |-> "Ann", email |-> "ann@x.io", phone |-> "1"]

\* bodies BookingCreateSchema accepts
CreateInputs ==
  {[arrivalAt |-> 1, contact |-> ContactA, items |-> it] :
     it \in {ItemsA} \cup InvalidItems}

\* bodies QuickReservationCreateSchema accepts
QuickInputs == {[name |-> "Quin", email |-> "q@x.io", numberOfPeople |-> 3, arrivalAt |-> 1]}

\* bodies BookingUpdateDetailsSchema accepts: every field is optional, and so
\* is every field of contact
UpdateInputs ==
  {[items |-> it] : it \in {ItemsB} \cup InvalidItems}
  \cup {[arrivalAt |-> 2, note |-> "late", contact |-> [email |-> "new@x.io"]]}

NoInput == [none |-> TRUE]
NoData == [none |-> TRUE]
NoMap == [none |-> TRUE]
NoResult == [statusCode |-> 0, error |-> "none", ref |-> "none"]

\* ------------------------------------------------------------- state
VARIABLES
  bookings,   \* the bookings collection: document id -> document
  programs,   \* the programs collection
  packages,   \* the packages collection
  calendar,   \* ids of the events that exist in the calendar
  eventSeq,   \* number of events the calendar has created
  req,        \* the requests: handler, position in it, locals (from: the
              \* status the committed transaction of a cancel had read)
  resp,       \* the response sent last: handler, booking id, outcome
  tr,         \* a call of assertTransition: arguments and outcome
  calc,       \* a call of computeTotals: argument and outcome
  ls,         \* a GET / request: its query, the token it presents, its response
  config,     \* config.sendgrid.templates: the templates that have an id
  sf          \* a status parameter of GET / and the predicate built from it

\* what no request on a booking touches: the state of the calls of pure
\* functions and the configuration of the process
pure == << tr, calc, ls, config, sf >>

vars == << bookings, programs, packages, calendar, eventSeq, req, resp, pure >>

Requests == 1..NumRequests
\* the handlers address one document, col.doc(req.params.id), and share nothing
\* across documents: the model follows the requests that name one booking id
BookingIds == {1}

IdleRequest ==
  [kind |-> "idle", pc |-> "idle", id |-> 0, input |-> NoInput, data |-> NoData,
   programsMap |-> NoMap, packagesMap |-> NoMap, ev |-> NoEvent, from |-> "none"]

NoResponse == [kind |-> "none", id |-> 0, result |-> NoResult]

IdleTr == [from |-> "", to |-> "", out |-> NoResult]
IdleCalc == [items |-> << >>, out |-> NoData]
\* the templates the handlers of create, confirm and cancel look up
Templates == {"bookingPending", "bookingConfirmed", "bookingCanceled"}

\* the process starts whichever templates are missing from its environment
Configurations == [templates : SUBSET Templates]

IdleStatusFilter == [status |-> << >>, out |-> NoData]
IdleList == [plan |-> NoInput, issuer |-> NoInput, pageToken |-> NoData, out |-> NoResult]

\* the document POST / adds
NewBooking(body, snapshot) ==
  [type |-> "normal", status |-> "pending", arrivalAt |-> body.arrivalAt,
   contact |-> body.contact, items |-> snapshot, note |-> "",
   partySize |-> Len(body.items), totals |-> computeTotals(snapshot),
   createdAt |-> 1, updatedAt |-> 1, createdBy |-> "null",
   calendarEventId |-> NoEvent, calendarHtmlLink |-> NoEvent]

\* the document POST /quick adds
QuickBooking(body) ==
  [type |-> "quick", status |-> "pending", arrivalAt |-> body.arrivalAt,
   contact |-> [name |-> body.name, email |-> body.email, phone |-> ""],
   items |-> << >>, note |-> "Quick reservation - awaiting details",
   partySize |-> body.numberOfPeople, totals |-> QuickTotals,
   createdAt |-> 1, updatedAt |-> 1, createdBy |-> "null",
   calendarEventId |-> NoEvent, calendarHtmlLink |-> NoEvent]

\* the document a first POST / with valid items leaves
CreatedBooking(body) ==
  NewBooking(body, snapshotItems(body.items,
                     snapshotPrograms(allProgramIds(body.items), InitPrograms),
                     snapshotPackages(allPackageIds(body.items), InitPackages)))

\* the store and the calendar when the service starts: nothing yet, or one
\* booking as an earlier run of requests, one after the other, left it:
\* created; created and confirmed (with its calendar event); created and canceled
InitialStates ==
  LET normal == {CreatedBooking(b) : b \in {c \in CreateInputs : c.items \in ValidItems}}
      created == normal \cup {QuickBooking(b) : b \in QuickInputs}
      stamp(doc, fields) ==
        [f \in DOMAIN doc |->
           IF f = "updatedAt" THEN doc.updatedAt + 1
           ELSE IF f \in DOMAIN fields THEN fields[f] ELSE doc[f]]
  IN  {[bookings |-> << >>, calendar |-> {}, eventSeq |-> 0]}
      \cup {[bookings |-> 1 :> d, calendar |-> {}, eventSeq |-> 0] : d \in created}
      \cup {[bookings |-> 1 :> stamp(stamp(d, [status |-> "confirmed"]),
                                     [calendarEventId |-> 1, calendarHtmlLink |-> 1]),
             calendar |-> {1}, eventSeq |-> 1] : d \in normal}
      \cup {[bookings |-> 1 :> stamp(d, [status |-> "canceled"]),
             calendar |-> {}, eventSeq |-> 0] : d \in normal}

Init ==
  /\ \E s \in InitialStates :
       /\ bookings = s.bookings
       /\ calendar = s.calendar
       /\ eventSeq = s.eventSeq
  /\ programs = InitPrograms
  /\ packages = InitPackages
  /\ req = [r \in Requests |-> IdleRequest]
  /\ resp = NoResponse
  /\ tr = IdleTr
  /\ calc = IdleCalc
  /\ ls = IdleList
  /\ sf = IdleStatusFilter
  /\ config \in Configurations

\* ------------------------------------------------------------- store helpers
Exists(id) == id \in DOMAIN bookings

\* a write that also blanks the note, as a handler rebuilding the document would
MergeBlankNote(doc, fields) ==
  [f \in DOMAIN doc |->
     IF f = "updatedAt" THEN doc.updatedAt + 1
     ELSE IF f \in DOMAIN fields THEN fields[f]
     ELSE IF f = "note" THEN "" ELSE doc[f]]

\* ref.update(fields) / trx.update(ref, fields): merge the fields, stamp updatedAt
Merge(doc, fields) ==
  [f \in DOMAIN doc |->
     IF f = "updatedAt" THEN doc.updatedAt + 1
     ELSE IF f \in DOMAIN fields THEN fields[f] ELSE doc[f]]

Step(r, rec) == req' = [req EXCEPT ![r] = rec] /\ UNCHANGED resp

\* a slot whose request was answered
DoneRequest == [IdleRequest EXCEPT !.kind = "done", !.pc = "done"]

\* the response is sent and the locals of the handler are gone
Finish(r, res) ==
  /\ req' = [req EXCEPT ![r] = DoneRequest]
  /\ resp' = [kind |-> req[r].kind, id |-> req[r].id, result |-> res]

\* the handler returns before res.json: the caller is never answered
Hang(r) ==
  /\ req' = [req EXCEPT ![r] = [IdleRequest EXCEPT !.kind = req[r].kind,
                                                  !.pc = "hung", !.id = req[r].id]]
  /\ UNCHANGED resp

\* the email step and the response after it: without the template the handler
\* logs and returns; with it the send succeeds or throws into the catch that
\* logs, and the response follows either way
EmailThenRespond(r, template, res) ==
  IF template \in config.templates THEN Finish(r, res) ELSE Hang(r)

\* the tail of the handlers that end with upsertBookingEvent: PATCH /:id
\* responds at once, confirm and resend-confirmation send the email first
AfterUpsert(r) ==
  IF req[r].kind = "update" THEN Finish(r, Ok)
  ELSE EmailThenRespond(r, "bookingConfirmed", Ok)

\* a transaction that commits whatever was written since its read
TrxConflictNever(r) == FALSE

\* db.runTransaction: the commit fails when the document read by trx.get was
\* written after the read
TrxConflict(r) == bookings[req[r].id].updatedAt # req[r].data.updatedAt

\* the failed commit: the store runs the function again, or has run out of
\* attempts and rejects with its own error
TrxRetry(r) ==
  \/ Step(r, [req[r] EXCEPT !.pc = "trxRead", !.data = NoData,
                            !.programsMap = NoMap, !.packagesMap = NoMap])
  \/ Finish(r, ServerFault("TransactionAborted"))

\* ------------------------------------------------------------- requests arrive
\* slots are taken in order: which slot serves a request changes nothing
CanBegin(r) ==
  /\ req[r].kind = "idle"
  /\ \A q \in Requests : q < r => req[q].kind # "idle"

\* documents added or about to be added
Adding == {q \in Requests : req[q].kind \in {"create", "quick"} /\ req[q].id = 0
                            /\ req[q].pc # "done"}

BeginCreate(r) ==
  /\ CanBegin(r)
  /\ Cardinality(DOMAIN bookings) + Cardinality(Adding) < Cardinality(BookingIds)
  /\ \E body \in CreateInputs :
       Step(r, [IdleRequest EXCEPT !.kind = "create", !.pc = "snapshot",
                                   !.input = body])
  /\ UNCHANGED << bookings, programs, packages, calendar, eventSeq, pure >>

BeginQuick(r) ==
  /\ CanBegin(r)
  /\ Cardinality(DOMAIN bookings) + Cardinality(Adding) < Cardinality(BookingIds)
  /\ \E body \in QuickInputs :
       Step(r, [IdleRequest EXCEPT !.kind = "quick", !.pc = "add", !.input = body])
  /\ UNCHANGED << bookings, programs, packages, calendar, eventSeq, pure >>

BeginUpdate(r) ==
  /\ CanBegin(r)
  /\ \E id \in BookingIds, updates \in UpdateInputs :
       Step(r, [IdleRequest EXCEPT !.kind = "update", !.pc = "trxRead", !.id = id,
                                   !.input = updates])
  /\ UNCHANGED << bookings, programs, packages, calendar, eventSeq, pure >>

BeginConfirm(r) ==
  /\ CanBegin(r)
  /\ \E id \in BookingIds :
       Step(r, [IdleRequest EXCEPT !.kind = "confirm", !.pc = "trxRead", !.id = id])
  /\ UNCHANGED << bookings, programs, packages, calendar, eventSeq, pure >>

BeginCancel(r) ==
  /\ CanBegin(r)
  /\ \E id \in BookingIds :
       Step(r, [IdleRequest EXCEPT !.kind = "cancel", !.pc = "trxRead", !.id = id])
  /\ UNCHANGED << bookings, programs, packages, calendar, eventSeq, pure >>

BeginResend(r) ==
  /\ CanBegin(r)
  /\ \E id \in BookingIds :
       Step(r, [IdleRequest EXCEPT !.kind = "resend", !.pc = "upsertRead", !.id = id])
  /\ UNCHANGED << bookings, programs, packages, calendar, eventSeq, pure >>

\* ------------------------------------------------------------- POST /
\* await snapshotPrograms(...) and await snapshotPackages(...), two reads of the
\* catalog that nothing separates but the wait; then snapshotItems, which
\* throws on the first selection that does not resolve
CreateSnapshot(r) ==
  /\ req[r].kind = "create" /\ req[r].pc = "snapshot"
  /\ LET pmap == snapshotPrograms(allProgramIds(req[r].input.items), programs)
         kmap == snapshotPackages(allPackageIds(req[r].input.items), packages)
         err == snapshotError(req[r].input.items, pmap, kmap)
     IN  IF err # Ok
           THEN Finish(r, err)
           ELSE Step(r, [req[r] EXCEPT !.pc = "add", !.programsMap = pmap,
                                       !.packagesMap = kmap])
  /\ UNCHANGED << bookings, programs, packages, calendar, eventSeq, pure >>

\* await col.add({...}), then the 201 response
CreateAdd(r) ==
  /\ req[r].kind = "create" /\ req[r].pc = "add"
  /\ LET id == Cardinality(DOMAIN bookings) + 1
         snapshot == snapshotItems(req[r].input.items, req[r].programsMap,
                                   req[r].packagesMap)
     IN  /\ bookings' = bookings @@ (id :> NewBooking(req[r].input, snapshot))
         /\ IF "bookingPending" \in config.templates
              THEN /\ req' = [req EXCEPT ![r] = DoneRequest]
                   /\ resp' = [kind |-> "create", id |-> id,
                               result |-> [Ok EXCEPT !.statusCode = 201]]
              ELSE /\ req' = [req EXCEPT ![r] =
                                [IdleRequest EXCEPT !.kind = "create", !.pc = "hung",
                                                    !.id = id]]
                   /\ UNCHANGED resp
  /\ UNCHANGED << programs, packages, calendar, eventSeq, pure >>

\* ------------------------------------------------------------- POST /quick
\* await col.add({...})
QuickAdd(r) ==
  /\ req[r].kind = "quick" /\ req[r].pc = "add"
  /\ LET id == Cardinality(DOMAIN bookings) + 1
     IN  /\ bookings' = bookings @@ (id :> QuickBooking(req[r].input))
         /\ Step(r, [req[r] EXCEPT !.pc = "quickEvent", !.id = id])
  /\ UNCHANGED << programs, packages, calendar, eventSeq, pure >>

\* createQuickReservationEvent(doc, ...): the event is inserted and its id is
\* written on the document; a failure is caught and logged
createQuickReservationEvent(r) ==
  \/ /\ calendar' = calendar \cup {eventSeq + 1}
     /\ eventSeq' = eventSeq + 1
     /\ bookings' = [bookings EXCEPT ![req[r].id] =
                       Merge(@, [calendarEventId |-> eventSeq + 1,
                                 calendarHtmlLink |-> eventSeq + 1])]
  \/ UNCHANGED << bookings, calendar, eventSeq >>

QuickEvent(r) ==
  /\ req[r].kind = "quick" /\ req[r].pc = "quickEvent"
  /\ createQuickReservationEvent(r)
  /\ Finish(r, [Ok EXCEPT !.statusCode = 201])
  /\ UNCHANGED << programs, packages, pure >>

\* ------------------------------------------------------------- PATCH /:id
\* an update that skips the canceled check
updateGuardMissing(data) == Ok

\* if (data.status === "canceled") throw 400
updateGuard(data) ==
  IF data.status = "canceled"
    THEN ClientError("CanceledBooking", "none")
    ELSE Ok

\* trx.get(ref) and the checks on what it read
UpdateRead(r) ==
  /\ req[r].kind = "update" /\ req[r].pc = "trxRead"
  /\ IF ~Exists(req[r].id)
       THEN Finish(r, ServerFault("BookingNotFound"))
     ELSE IF updateGuard(bookings[req[r].id]) # Ok
       THEN Finish(r, updateGuard(bookings[req[r].id]))
     ELSE Step(r, [req[r] EXCEPT !.data = bookings[req[r].id],
                     !.pc = IF "items" \in DOMAIN req[r].input
                              THEN "snapshot" ELSE "commit"])
  /\ UNCHANGED << bookings, programs, packages, calendar, eventSeq, pure >>

\* await snapshotPrograms(...) and await snapshotPackages(...) inside the
\* transaction function; the map that follows throws on the first selection
\* that does not resolve, and the transaction writes nothing
UpdateSnapshot(r) ==
  /\ req[r].kind = "update" /\ req[r].pc = "snapshot"
  /\ LET pmap == snapshotPrograms(allProgramIds(req[r].input.items), programs)
         kmap == snapshotPackages(allPackageIds(req[r].input.items), packages)
         err == snapshotError(req[r].input.items, pmap, kmap)
     IN  IF err # Ok
           THEN Finish(r, err)
           ELSE Step(r, [req[r] EXCEPT !.pc = "commit", !.programsMap = pmap,
                                       !.packagesMap = kmap])
  /\ UNCHANGED << bookings, programs, packages, calendar, eventSeq, pure >>

\* the fields trx.update(ref, {...}) writes
UpdateFields(data, updates, programsMap, packagesMap) ==
  LET items == IF "items" \in DOMAIN updates
                 THEN snapshotItems(updates.items, programsMap, packagesMap)
                 ELSE data.items
  IN  [arrivalAt |-> IF "arrivalAt" \in DOMAIN updates
                       THEN updates.arrivalAt ELSE data.arrivalAt,
       items |-> items,
       contact |-> IF "contact" \in DOMAIN updates
                     THEN updates.contact ELSE data.contact,
       note |-> IF "note" \in DOMAIN updates THEN updates.note ELSE data.note,
       partySize |-> Len(items),
       totals |-> computeTotals(items)]

\* the commit of the transaction, or its retry
UpdateCommit(r) ==
  /\ req[r].kind = "update" /\ req[r].pc = "commit"
  /\ IF TrxConflict(r)
       THEN TrxRetry(r) /\ UNCHANGED bookings
       ELSE /\ bookings' = [bookings EXCEPT ![req[r].id] =
                              Merge(@, UpdateFields(req[r].data, req[r].input,
                                         req[r].programsMap, req[r].packagesMap))]
            /\ Step(r, [req[r] EXCEPT !.pc = "upsertRead"])
  /\ UNCHANGED << programs, packages, calendar, eventSeq, pure >>

\* ------------------------------------------------------------- POST /:id/confirm
ConfirmRead(r) ==
  /\ req[r].kind = "confirm" /\ req[r].pc = "trxRead"
  /\ IF ~Exists(req[r].id)
       THEN Finish(r, ServerFault("BookingNotFound"))
     ELSE IF assertTransition(bookings[req[r].id].status, "confirmed") # Ok
       THEN Finish(r, assertTransition(bookings[req[r].id].status, "confirmed"))
     ELSE Step(r, [req[r] EXCEPT !.data = bookings[req[r].id], !.pc = "commit"])
  /\ UNCHANGED << bookings, programs, packages, calendar, eventSeq, pure >>

ConfirmCommit(r) ==
  /\ req[r].kind = "confirm" /\ req[r].pc = "commit"
  /\ IF TrxConflict(r)
       THEN TrxRetry(r) /\ UNCHANGED bookings
       ELSE /\ bookings' = [bookings EXCEPT ![req[r].id] =
                              Merge(@, [status |-> "confirmed"])]
            /\ Step(r, [req[r] EXCEPT !.pc = "upsertRead"])
  /\ UNCHANGED << programs, packages, calendar, eventSeq, pure >>

\* ------------------------------------------------------------- POST /:id/cancel
CancelRead(r) ==
  /\ req[r].kind = "cancel" /\ req[r].pc = "trxRead"
  /\ IF ~Exists(req[r].id)
       THEN Finish(r, ServerFault("BookingNotFound"))
     ELSE IF assertTransition(bookings[req[r].id].status, "canceled") # Ok
       THEN Finish(r, assertTransition(bookings[req[r].id].status, "canceled"))
     ELSE Step(r, [req[r] EXCEPT !.data = bookings[req[r].id], !.pc = "commit"])
  /\ UNCHANGED << bookings, programs, packages, calendar, eventSeq, pure >>

CancelCommit(r) ==
  /\ req[r].kind = "cancel" /\ req[r].pc = "commit"
  /\ IF TrxConflict(r)
       THEN TrxRetry(r) /\ UNCHANGED bookings
       ELSE /\ bookings' = [bookings EXCEPT ![req[r].id] =
                              Merge(@, [status |-> "canceled"])]
            /\ Step(r, [req[r] EXCEPT !.pc = "deleteRead",
                                      !.from = req[r].data.status])
  /\ UNCHANGED << programs, packages, calendar, eventSeq, pure >>

\* ------------------------------------------------------------- upsertBookingEvent
\* bookingRef.get(); a missing booking throws, which the handler logs
UpsertRead(r) ==
  /\ req[r].kind \in {"update", "confirm", "resend"} /\ req[r].pc = "upsertRead"
  /\ IF ~Exists(req[r].id)
       THEN AfterUpsert(r)
       ELSE Step(r, [req[r] EXCEPT !.data = bookings[req[r].id],
                                   !.pc = "upsertCalendar"])
  /\ UNCHANGED << bookings, programs, packages, calendar, eventSeq, pure >>

\* calendar.events.update of the booking's event when it has one and the event
\* still exists; calendar.events.insert otherwise
UpsertCalendar(r) ==
  /\ req[r].kind \in {"update", "confirm", "resend"} /\ req[r].pc = "upsertCalendar"
  /\ IF req[r].data.calendarEventId # NoEvent
        /\ req[r].data.calendarEventId \in calendar
       THEN /\ Step(r, [req[r] EXCEPT !.ev = req[r].data.calendarEventId,
                                      !.pc = "upsertWrite"])
            /\ UNCHANGED << calendar, eventSeq >>
       ELSE /\ calendar' = calendar \cup {eventSeq + 1}
            /\ eventSeq' = eventSeq + 1
            /\ Step(r, [req[r] EXCEPT !.ev = eventSeq + 1, !.pc = "upsertWrite"])
  /\ UNCHANGED << bookings, programs, packages, pure >>

\* the calendar call throws: upsertBookingEvent rethrows, the handler logs
UpsertCalendarFails(r) ==
  /\ req[r].kind \in {"update", "confirm", "resend"} /\ req[r].pc = "upsertCalendar"
  /\ AfterUpsert(r)
  /\ UNCHANGED << bookings, programs, packages, calendar, eventSeq, pure >>

\* bookingRef.update({calendarEventId, calendarHtmlLink, updatedAt})
UpsertWrite(r) ==
  /\ req[r].kind \in {"update", "confirm", "resend"} /\ req[r].pc = "upsertWrite"
  /\ bookings' = [bookings EXCEPT ![req[r].id] =
                    Merge(@, [calendarEventId |-> req[r].ev,
                              calendarHtmlLink |-> req[r].ev])]
  /\ AfterUpsert(r)
  /\ UNCHANGED << programs, packages, calendar, eventSeq, pure >>

\* ------------------------------------------------------------- deleteBookingEvent
\* bookingRef.get(); nothing to do without a calendarEventId
DeleteRead(r) ==
  /\ req[r].kind = "cancel" /\ req[r].pc = "deleteRead"
  /\ IF bookings[req[r].id].calendarEventId = NoEvent
       THEN EmailThenRespond(r, "bookingCanceled", Ok)
       ELSE Step(r, [req[r] EXCEPT !.data = bookings[req[r].id],
                                   !.pc = "deleteCalendar"])
  /\ UNCHANGED << bookings, programs, packages, calendar, eventSeq, pure >>

\* calendar.events.delete; its failure is ignored
DeleteCalendar(r) ==
  /\ req[r].kind = "cancel" /\ req[r].pc = "deleteCalendar"
  /\ calendar' = calendar \ {req[r].data.calendarEventId}
  /\ Step(r, [req[r] EXCEPT !.pc = "deleteWrite"])
  /\ UNCHANGED << bookings, programs, packages, eventSeq, pure >>

\* bookingRef.update({calendarEventId: delete(), calendarHtmlLink: delete(), updatedAt})
DeleteWrite(r) ==
  /\ req[r].kind = "cancel" /\ req[r].pc = "deleteWrite"
  /\ bookings' = [bookings EXCEPT ![req[r].id] =
                    Merge(@, [calendarEventId |-> NoEvent,
                              calendarHtmlLink |-> NoEvent])]
  /\ EmailThenRespond(r, "bookingCanceled", Ok)
  /\ UNCHANGED << programs, packages, calendar, eventSeq, pure >>

\* ------------------------------------------------------------- specification
Next ==
  \/ \E r \in Requests : BeginCreate(r)
  \/ \E r \in Requests : BeginQuick(r)
  \/ \E r \in Requests : BeginUpdate(r)
  \/ \E r \in Requests : BeginConfirm(r)
  \/ \E r \in Requests : BeginCancel(r)
  \/ \E r \in Requests : BeginResend(r)
  \/ \E r \in Requests : CreateSnapshot(r)
  \/ \E r \in Requests : CreateAdd(r)
  \/ \E r \in Requests : QuickAdd(r)
  \/ \E r \in Requests : QuickEvent(r)
  \/ \E r \in Requests : UpdateRead(r)
  \/ \E r \in Requests : UpdateSnapshot(r)
  \/ \E r \in Requests : UpdateCommit(r)
  \/ \E r \in Requests : ConfirmRead(r)
  \/ \E r \in Requests : ConfirmCommit(r)
  \/ \E r \in Requests : CancelRead(r)
  \/ \E r \in Requests : CancelCommit(r)
  \/ \E r \in Requests : UpsertRead(r)
  \/ \E r \in Requests : UpsertCalendar(r)
  \/ \E r \in Requests : UpsertCalendarFails(r)
  \/ \E r \in Requests : UpsertWrite(r)
  \/ \E r \in Requests : DeleteRead(r)
  \/ \E r \in Requests : DeleteCalendar(r)
  \/ \E r \in Requests : DeleteWrite(r)

Spec == Init /\ [][Next]_vars

\* ------------------------------------------------------------- calls of the pure functions
\* nothing stored, nothing in flight
LifecycleIdle ==
  /\ bookings = << >>
  /\ programs = InitPrograms
  /\ packages = InitPackages
  /\ calendar = {}
  /\ eventSeq = 0
  /\ req = [r \in Requests |-> IdleRequest]
  /\ resp = NoResponse
  /\ config = [templates |-> Templates]

lifecycle == << bookings, programs, packages, calendar, eventSeq, req, resp, config >>

InitTransition ==
  /\ LifecycleIdle
  /\ \E f \in StatusInputs, t \in StatusInputs : tr = [from |-> f, to |-> t, out |-> NoResult]
  /\ calc = IdleCalc
  /\ ls = IdleList
  /\ sf = IdleStatusFilter

CallAssertTransition ==
  /\ tr.out = NoResult
  /\ tr' = [tr EXCEPT !.out = assertTransition(tr.from, tr.to)]
  /\ UNCHANGED << lifecycle, calc, ls, sf >>

NextTransition ==
  /\ tr.out # NoResult
  /\ \E f \in StatusInputs, t \in StatusInputs : tr' = [from |-> f, to |-> t, out |-> NoResult]
  /\ UNCHANGED << lifecycle, calc, ls, sf >>

SpecTransition ==
  InitTransition /\ [][CallAssertTransition \/ NextTransition]_vars

\* snapshotted selections as mapItemProgramToSnapshot and mapItemPackageToSnapshot
\* build them, for every quantity and duration option
PersonInputs ==
  LET progs == {<< >>} \cup
               {<< [programId |-> "p1", qty |-> q, durationSnapshot |-> d,
                    priceSnapshot |-> 1] >> : q \in 1..2, d \in {60, 90}}
      packs == {<< >>} \cup {<< [packageId |-> "k1", qty |-> q] >> : q \in 1..2}
  IN  {[personName |-> "Ann", programs |-> pr, packages |-> pk] :
         pr \in progs, pk \in packs} \ {[personName |-> "Ann", programs |-> << >>,
                                         packages |-> << >>]}

\* item lists of up to MaxPersons persons, snapshotted against the catalog
SnapshotLists ==
  {snapshotItems(l, snapshotPrograms(ProgramIds, InitPrograms),
                    snapshotPackages(PackageIds, InitPackages)) :
     l \in UNION {[1..n -> PersonInputs] : n \in 0..MaxPersons}}

InitTotals ==
  /\ LifecycleIdle
  /\ tr = IdleTr
  /\ \E l \in SnapshotLists : calc = [items |-> l, out |-> NoData]
  /\ ls = IdleList
  /\ sf = IdleStatusFilter

CallComputeTotals ==
  /\ calc.out = NoData
  /\ calc' = [calc EXCEPT !.out = computeTotals(calc.items)]
  /\ UNCHANGED << lifecycle, tr, ls, sf >>

NextTotals ==
  /\ calc.out # NoData
  /\ \E l \in SnapshotLists : calc' = [items |-> l, out |-> NoData]
  /\ UNCHANGED << lifecycle, tr, ls, sf >>

SpecTotals == InitTotals /\ [][CallComputeTotals \/ NextTotals]_vars

\* ------------------------------------------------------------- listing: values
\* a field or pivot value with its type; the store orders values of different
\* types by type: null, number, timestamp, string
Null == [t |-> "null", n |-> 0, sub |-> 0, s |-> ""]
Num(n) == [t |-> "number", n |-> n, sub |-> 0, s |-> ""]
Str(s) == [t |-> "string", n |-> 0, sub |-> 0, s |-> s]
\* a Timestamp: whole milliseconds and what it holds below the millisecond
Ts(ms, sub) == [t |-> "timestamp", n |-> ms, sub |-> sub, s |-> ""]

toMillis(v) == Num(v.n)
fromMillis(n) == Ts(n, 0)

\* new Date(string): the milliseconds, or -1 for an Invalid Date
parseDate(s) == IF s = "1970-01-01T00:00:00.002Z" THEN 2 ELSE -1

CannotRevive == [t |-> "throw", n |-> 0, sub |-> 0, s |-> "Cannot revive value to Firestore Timestamp"]

reviveToTimestamp(v) ==
  CASE v.t = "timestamp" -> v
    [] v.t = "number" -> fromMillis(v.n)
    [] v.t = "string" /\ parseDate(v.s) >= 0 -> fromMillis(parseDate(v.s))
    [] v.t = "object" -> fromMillis(v.n)
    [] OTHER -> CannotRevive

serializePivotValue(v) == IF v.t = "timestamp" THEN toMillis(v) ELSE v

\* a token is a base64 text: chars are the characters its two alphabets write
\* differently (those of the sextets 62 and 63), pad tells whether it ends
\* with "=", and json, v and pivot are the text its bytes hold when the
\* characters are read in an alphabet of base64
UrlSafe == << "-", "_" >>
Standard == << "+", "/" >>

\* Buffer.from(JSON.stringify(o)).toString("base64url"): the payload as JSON
\* holds it; a Timestamp left in it would become a plain object
encodeToken(o) ==
  [chars |-> UrlSafe, pad |-> FALSE, json |-> "object", v |-> o.v,
   pivot |-> [i \in DOMAIN o.pivot |->
                IF o.pivot[i].t = "timestamp"
                  THEN [o.pivot[i] EXCEPT !.t = "object"]
                  ELSE o.pivot[i]]]

\* JSON.parse throws
SyntaxError == [json |-> "throw", v |-> 0, pivot |-> << >>]

\* token.replace(/-/g, "+").replace(/_/g, "/")
replaceAlphabet(chars) ==
  [i \in DOMAIN chars |->
     CASE chars[i] = "-" -> "+" [] chars[i] = "_" -> "/" [] OTHER -> chars[i]]

\* the text is padded, Buffer.from(s, "base64") reads it, skipping what is no
\* base64 character, and JSON.parse reads the bytes
decodeToken(token) ==
  IF replaceAlphabet(token.chars) # Standard \/ token.json = "notJson"
    THEN SyntaxError
    ELSE [json |-> token.json, v |-> token.v, pivot |-> token.pivot]

\* ------------------------------------------------------------- listing: query plan
NoQ == << >>
NoDate == -1
SortFields == {"createdAt", "updatedAt", "status", "searchKey", "name"}
PageSizes == {1, 2}

\* req.query after QuerySchema.parse
Queries ==
  [status : {"", "pending"}, from : {NoDate, 1}, to : {NoDate, 1}, sortBy : SortFields,
   sortDir : {"asc", "desc"}, q : {NoQ, << "a" >>}, pageSize : PageSizes]

appliedRangeField(params) ==
  IF params.q # NoQ THEN "searchKey"
  ELSE IF params.from # NoDate \/ params.to # NoDate THEN "createdAt"
  ELSE "null"

\* the where calls of the handler: field and operator
wherePredicates(params) ==
  (IF params.status # "" THEN {[field |-> "status", op |-> "=="]} ELSE {})
  \cup (IF params.q # NoQ
          THEN {[field |-> "contact.name", op |-> ">="],
                [field |-> "contact.name", op |-> "<"]}
          ELSE (IF params.from # NoDate
                  THEN {[field |-> "createdAt", op |-> ">="]} ELSE {})
               \cup (IF params.to # NoDate
                       THEN {[field |-> "createdAt", op |-> "<="]} ELSE {}))

\* the field of the where(field, ">=", ...) / where(field, "<", ...) calls
rangePredicateField(params) ==
  IF params.q # NoQ THEN "contact.name"
  ELSE IF params.from # NoDate \/ params.to # NoDate THEN "createdAt"
  ELSE "null"

\* a count that forgets the range field
expectedPivotCountNoRange(rangeField, sortBy) == (IF sortBy # "" THEN 1 ELSE 0) + 1

expectedPivotCount(rangeField, sortBy) ==
  IF rangeField = "searchKey" THEN (IF sortBy # "searchKey" THEN 2 ELSE 1) + 1
  ELSE IF rangeField = "createdAt" THEN (IF sortBy # "createdAt" THEN 2 ELSE 1) + 1
  ELSE (IF sortBy # "" THEN 1 ELSE 0) + 1

\* the fields of the orderBy calls, in order; __name__ is the document id
orderChain(rangeField, sortBy) ==
  (IF rangeField = "searchKey"
     THEN << "searchKey" >> \o (IF sortBy # "searchKey" THEN << sortBy >> ELSE << >>)
   ELSE IF rangeField = "createdAt"
     THEN (IF sortBy # "createdAt" THEN << "createdAt", sortBy >> ELSE << "createdAt" >>)
   ELSE << sortBy >>)
  \o << "__name__" >>

\* the positions revived to Timestamp, counted from 1 as Sequences does
timestampPivotIndexes(rangeField, sortBy) ==
  IF rangeField = "createdAt" THEN {1}
  ELSE IF rangeField = "searchKey"
    THEN (IF sortBy # "searchKey" /\ sortBy = "createdAt" THEN {2} ELSE {})
  ELSE (IF sortBy = "createdAt" THEN {1} ELSE {})

\* ------------------------------------------------------------- listing: the store's query
\* a query without startAfter
NoCursor == << >>

\* what GET / reads of the stored bookings: POST / and POST /quick write
\* status, contact.name, createdAt and updatedAt, and no request writes searchKey
ListRecords ==
  {[id |-> "b1", status |-> Str("pending"), contactName |-> << "A", "n", "n" >>,
    createdAt |-> Ts(1, 0), updatedAt |-> Ts(3, 0)],
   [id |-> "b2", status |-> Str("confirmed"), contactName |-> << "a", "l" >>,
    createdAt |-> Ts(1, 1), updatedAt |-> Ts(2, 0)],
   [id |-> "b3", status |-> Str("pending"), contactName |-> << "B", "o" >>,
    createdAt |-> Ts(2, 0), updatedAt |-> Ts(2, 1)]}

RecordFields == {"status", "createdAt", "updatedAt"}

HasField(rec, f) == f = "__name__" \/ f \in RecordFields

FieldValue(rec, f) ==
  IF f = "__name__" THEN Str(rec.id)
  ELSE IF f \in RecordFields THEN rec[f]
  ELSE Null

\* the strings of the model in the store's order of strings
StringOrder ==
  << "", "1970-01-01T00:00:00.002Z", "b1", "b2", "b3", "canceled", "confirmed",
     "pending" >>
StrRank(s) == CHOOSE i \in 1..Len(StringOrder) : StringOrder[i] = s

TypeRank(v) ==
  CASE v.t = "null" -> 0
    [] v.t = "number" -> 1
    [] v.t = "timestamp" -> 2
    [] v.t = "string" -> 3
    [] OTHER -> 4

Less(a, b) ==
  \/ TypeRank(a) < TypeRank(b)
  \/ /\ a.t = b.t
     /\ \/ a.n < b.n
        \/ a.n = b.n /\ a.sub < b.sub
        \/ a.t = "string" /\ StrRank(a.s) < StrRank(b.s)

KeyOf(rec, chain) == [i \in 1..Len(chain) |-> FieldValue(rec, chain[i])]

KeyLess(k1, k2) ==
  \E i \in 1..Len(k1) : Less(k1[i], k2[i]) /\ \A j \in 1..(i - 1) : k1[j] = k2[j]

\* k1 comes before k2 in a query ordered in direction dir
Before(k1, k2, dir) == IF dir = "asc" THEN KeyLess(k1, k2) ELSE KeyLess(k2, k1)

\* String.prototype.toUpperCase on the letters of the model
toUpperCase(term) ==
  [i \in 1..Len(term) |->
     CASE term[i] = "a" -> "A" [] term[i] = "n" -> "N" [] term[i] = "l" -> "L"
       [] term[i] = "o" -> "O" [] OTHER -> term[i]]

\* where(field, ">=", upper).where(field, "<", upper + "\uf8ff")
InPrefixRange(name, upper) ==
  Len(name) >= Len(upper) /\ SubSeq(name, 1, Len(upper)) = upper

\* status.split(",").map(trim).filter(Boolean) and the where it becomes
statusFilter(status) ==
  IF status = "" THEN {r.status.s : r \in ListRecords} ELSE {status}

\* the documents the built query selects, before ordering: the status and
\* range predicates, the store leaving out a document that lacks an orderBy
\* field, and startAfter(...pivot)
Selected(params, chain, pivot) ==
  {rec \in ListRecords :
     /\ rec.status.s \in statusFilter(params.status)
     /\ IF params.q # NoQ
          THEN InPrefixRange(rec.contactName, toUpperCase(params.q))
          ELSE /\ params.from # NoDate => ~Less(rec.createdAt, fromMillis(params.from))
               /\ params.to # NoDate => ~Less(fromMillis(params.to), rec.createdAt)
     /\ \A i \in 1..Len(chain) : HasField(rec, chain[i])
     /\ pivot # NoCursor => Before(pivot, KeyOf(rec, chain), params.sortDir)}

RECURSIVE Ordered(_, _, _)
Ordered(recs, chain, dir) ==
  IF recs = {} THEN << >>
  ELSE LET first == CHOOSE r \in recs :
                      \A o \in recs \ {r} : Before(KeyOf(r, chain), KeyOf(o, chain), dir)
       IN  << first >> \o Ordered(recs \ {first}, chain, dir)

\* a query that is given no limit
NoLimit(s, n) == s

\* qref.limit(n).get(), docs.slice(0, n)
Limit(s, n) == SubSeq(s, 1, IF Len(s) < n THEN Len(s) ELSE n)

\* ------------------------------------------------------------- listing: GET /
ListError(error, expected, got) ==
  [statusCode |-> 400, error |-> error, items |-> << >>, nextPageToken |-> NoData,
   hasMore |-> FALSE, startAfter |-> NoCursor, expectedPivot |-> expected, got |-> got,
   notice |-> FALSE, fetched |-> 0]

\* the pivot of the last document of a page, in the order of the orderBy calls
nextPivot(rangeField, sortBy, last) ==
  (IF rangeField = "searchKey"
     THEN << FieldValue(last, "searchKey") >> \o
          (IF sortBy # "searchKey"
             THEN << serializePivotValue(FieldValue(last, sortBy)) >> ELSE << >>)
   ELSE IF rangeField = "createdAt"
     THEN << serializePivotValue(FieldValue(last, "createdAt")) >> \o
          (IF sortBy # "createdAt"
             THEN << serializePivotValue(FieldValue(last, sortBy)) >> ELSE << >>)
   ELSE (IF sortBy # ""
           THEN << serializePivotValue(FieldValue(last, sortBy)) >> ELSE << >>))
  \o << Str(last.id) >>

\* the fetch of pageSize + 1 documents and the response built from it
ListPage(params, rangeField, chain, pivot) ==
  LET snap == Limit(Ordered(Selected(params, chain, pivot), chain, params.sortDir),
                    params.pageSize + 1)
      docs == Limit(snap, params.pageSize)
      hasMore == Len(snap) > params.pageSize
  IN  [statusCode |-> 200, error |-> "none",
       items |-> [i \in 1..Len(docs) |-> docs[i].id],
       nextPageToken |->
         IF hasMore
           THEN encodeToken([v |-> 1,
                             pivot |-> nextPivot(rangeField, params.sortBy, docs[Len(docs)])])
           ELSE NoData,
       hasMore |-> hasMore, startAfter |-> pivot, expectedPivot |-> 0, got |-> 0,
       notice |-> (params.q # NoQ /\ (params.from # NoDate \/ params.to # NoDate)),
       fetched |-> Len(snap)]

\* an error of the pageToken handling that reaches next(err)
UncaughtTokenError ==
  [ListError("Malformed pageToken", 0, 0) EXCEPT !.statusCode = 500]

\* the catch around the pageToken handling: res.status(400)
MalformedToken == ListError("Malformed pageToken", 0, 0)

\* startAfter(...pivot) throws when the value for the document id is no
\* string or an empty one
startAfterThrows(pivot) ==
  pivot[Len(pivot)].t # "string" \/ pivot[Len(pivot)].s = ""

\* a handler that takes a pivot array of any length
pivotCountMismatchNever(cursor, expected) == FALSE

\* cursor.pivot.length !== expected
pivotCountMismatch(cursor, expected) == Len(cursor.pivot) # expected

\* the handler: the plan, the pageToken when one is given, then the page
ListBookings(params, pageToken) ==
  LET rangeField == appliedRangeField(params)
      chain == orderChain(rangeField, params.sortBy)
  IN  IF pageToken = NoData THEN ListPage(params, rangeField, chain, NoCursor)
      ELSE
        LET cursor == decodeToken(pageToken)
            expected == expectedPivotCount(rangeField, params.sortBy)
            tsIdxs == timestampPivotIndexes(rangeField, params.sortBy)
            pivot == [i \in 1..Len(cursor.pivot) |->
                        IF i \in tsIdxs THEN reviveToTimestamp(cursor.pivot[i])
                        ELSE cursor.pivot[i]]
        IN  IF cursor = SyntaxError THEN MalformedToken
            ELSE IF cursor.json # "object"
              THEN ListError("Invalid pageToken: no pivot array", 0, 0)
            ELSE IF pivotCountMismatch(cursor, expected)
              THEN ListError("Invalid pageToken for current query parameters",
                             expected, Len(cursor.pivot))
            ELSE IF \E i \in 1..Len(pivot) : pivot[i] = CannotRevive
              THEN MalformedToken
            ELSE IF startAfterThrows(pivot) THEN MalformedToken
            ELSE ListPage(params, rangeField, chain, pivot)

\* a first page: GET / without pageToken
ListFirst ==
  /\ ls = IdleList
  /\ \E params \in Queries :
    /\ ls' = [plan |-> params, issuer |-> NoInput, pageToken |-> NoData,
              out |-> ListBookings(params, NoData)]
    /\ UNCHANGED << lifecycle, tr, calc, sf >>

\* the same token written in the standard alphabet, with its padding
InStandard(token) == [token EXCEPT !.chars = Standard, !.pad = TRUE]

\* the nextPageToken of the last response presented with a query, the same
\* one or another, as it was issued or rewritten in the standard alphabet
ListFollow ==
  /\ ls.out # NoResult
  /\ ls.out.nextPageToken # NoData
  /\ \E params \in Queries :
       \E token \in {ls.out.nextPageToken, InStandard(ls.out.nextPageToken)} :
         ls' = [plan |-> params, issuer |-> ls.plan, pageToken |-> token,
                out |-> ListBookings(params, token)]
  /\ UNCHANGED << lifecycle, tr, calc, sf >>

\* pageToken values no listing issued
ForgedTokens ==
  {[chars |-> c, pad |-> FALSE, json |-> "object", v |-> 1, pivot |-> << Num(1), Str("b1") >>] :
     c \in {<< "%", "_" >>}}
  \cup {[chars |-> c, pad |-> FALSE, json |-> j, v |-> 0, pivot |-> << >>] :
          c \in {UrlSafe, Standard},
          j \in {"notJson", "null", "number", "noPivot", "pivotNotArray"}}
  \cup {[chars |-> UrlSafe, pad |-> FALSE, json |-> "object", v |-> 1, pivot |-> p] :
          p \in {<< Null, Str("b1") >>, << Str("pending"), Str("b1") >>,
                 << Num(1), Num(7) >>, << Num(1), Str("") >>,
                 << Str("1970-01-01T00:00:00.002Z"), Str("b1") >>}}

\* a listing that is given a token made up by the caller
ListForged ==
  /\ ls = IdleList
  /\ \E params \in Queries, token \in ForgedTokens :
       ls' = [plan |-> params, issuer |-> NoInput, pageToken |-> token,
              out |-> ListBookings(params, token)]
  /\ UNCHANGED << lifecycle, tr, calc, sf >>

\* the caller is done with the response and its token
ListEnd ==
  /\ ls.out # NoResult
  /\ ls' = IdleList
  /\ UNCHANGED << lifecycle, tr, calc, sf >>

InitList ==
  /\ LifecycleIdle
  /\ tr = IdleTr
  /\ calc = IdleCalc
  /\ ls = IdleList
  /\ sf = IdleStatusFilter

SpecList == InitList /\ [][ListFirst \/ ListFollow \/ ListForged \/ ListEnd]_vars

\* ------------------------------------------------------------- the status filter of GET /
MaxPieces == 12

\* the size of a list that where("status", "in", ...) accepts
InLimit == 10

\* a piece of the status parameter between two commas: a value, possibly
\* empty, with or without blanks around it
Piece(s, blanks) == [s |-> s, blanks |-> blanks]

trim(piece) == piece.s

\* status.split(",").map((s) => s.trim()).filter(Boolean)
statuses(status) == SelectSeq([i \in 1..Len(status) |-> trim(status[i])], LAMBDA s : s # "")

\* the filter that keeps a list longer than the limit whole
statusPredicateWhole(status) ==
  LET list == statuses(status)
  IN  IF Len(list) = 1 THEN [op |-> "==", value |-> << list[1] >>]
      ELSE [op |-> "in", value |-> list]

\* the predicate on status that the handler adds to the query
statusPredicate(status) ==
  LET list == statuses(status)
  IN  IF Len(list) = 1 THEN [op |-> "==", value |-> << list[1] >>]
      ELSE IF Len(list) <= InLimit THEN [op |-> "in", value |-> list]
      ELSE [op |-> "in", value |-> SubSeq(list, 1, InLimit)]

\* status parameters of up to MaxPieces pieces: the three statuses in turn,
\* from any of them on, with or without an empty piece after each third one
StatusCycle(gap) ==
  IF gap THEN << "pending", "confirmed", "canceled", "" >>
         ELSE << "pending", "confirmed", "canceled" >>

StatusParams ==
  {[i \in 1..n |->
      LET cycle == StatusCycle(gap)
      IN  Piece(cycle[((i + first) % Len(cycle)) + 1], blanks /\ i % 2 = 0)] :
     n \in 1..MaxPieces, first \in 0..2, gap \in BOOLEAN, blanks \in BOOLEAN}

InitStatus ==
  /\ LifecycleIdle
  /\ tr = IdleTr
  /\ calc = IdleCalc
  /\ ls = IdleList
  /\ \E status \in StatusParams : sf = [status |-> status, out |-> NoData]

CallStatusPredicate ==
  /\ sf.out = NoData
  /\ sf' = [sf EXCEPT !.out = statusPredicate(sf.status)]
  /\ UNCHANGED << lifecycle, tr, calc, ls >>

NextStatus ==
  /\ sf.out # NoData
  /\ \E status \in StatusParams : sf' = [status |-> status, out |-> NoData]
  /\ UNCHANGED << lifecycle, tr, calc, ls >>

SpecStatus == InitStatus /\ [][CallStatusPredicate \/ NextStatus]_vars

\* ------------------------------------------------------------- claims: lifecycle table
\* the transition table as section 4.3 prints it
TransitionTable ==
  {<< "pending", "pending" >>, << "pending", "confirmed" >>, << "pending", "canceled" >>,
   << "confirmed", "confirmed" >>, << "confirmed", "canceled" >>,
   << "canceled", "canceled" >>}

RECURSIVE SumOver(_, _)
SumOver(f(_), s) == IF s = << >> THEN 0 ELSE f(Head(s)) + SumOver(f, Tail(s))

\* section 4.2: every selection, program or package, counts unit price x qty
LineTotal(sel) == sel.priceSnapshot * sel.qty
PersonTotal(it) == SumOver(LineTotal, it.programs) + SumOver(LineTotal, it.packages)

\* C7: computeTotals(items).subtotal is the sum over all program selections of
\* priceSnapshot x qty plus the sum over all package selections of
\* priceSnapshot x qty, and grandTotal equals subtotal.
C7_SubtotalIsSumOfLines ==
  calc.out # NoData =>
    /\ calc.out.subtotal = SumOver(PersonTotal, calc.items)
    /\ calc.out.grandTotal = calc.out.subtotal

\* C8: in every reachable state each booking's stored totals equal
\* computeTotals of its stored items.
C8_TotalsDerivedFromItems ==
  \A id \in DOMAIN bookings :
    bookings[id].totals = computeTotals(bookings[id].items)

\* ------------------------------------------------------------- catalog edits
MaxCatalogEdits == 2

\* bodies ProgramSchema.partial() and PackageSchema.partial() accept
ProgramPatches ==
  {[name |-> "Thai Plus",
    durationOptions |-> << [durationMinutes |-> 60, price |-> 550],
                           [durationMinutes |-> 90, price |-> 1200] >>]}
PackagePatches == {[name |-> "Duo Plus", packagePrice |-> 1500]}

\* doc.update(fields) on a catalog document
Patch(doc, fields) ==
  [f \in DOMAIN doc |-> IF f \in DOMAIN fields THEN fields[f] ELSE doc[f]]

\* how many catalog fields differ from the catalog the service started with
CatalogEdits ==
  Cardinality({<< p, f >> \in (DOMAIN programs) \X {"name", "durationOptions", "isActive"} :
                 programs[p][f] # InitPrograms[p][f]})
  + Cardinality({<< k, f >> \in (DOMAIN packages) \X {"name", "packagePrice", "isActive"} :
                   packages[k][f] # InitPackages[k][f]})

\* PATCH /api/v1/programs/:id
ProgramPatch ==
  /\ CatalogEdits < MaxCatalogEdits
  /\ \E p \in DOMAIN programs, body \in ProgramPatches :
       programs' = [programs EXCEPT ![p] = Patch(@, body)]
  /\ UNCHANGED << bookings, packages, calendar, eventSeq, req, resp, pure >>

\* DELETE /api/v1/programs/:id: the soft delete
ProgramDelete ==
  /\ CatalogEdits < MaxCatalogEdits
  /\ \E p \in DOMAIN programs :
       programs' = [programs EXCEPT ![p] = Patch(@, [isActive |-> FALSE])]
  /\ UNCHANGED << bookings, packages, calendar, eventSeq, req, resp, pure >>

\* PATCH /api/v1/packages/:id
PackagePatch ==
  /\ CatalogEdits < MaxCatalogEdits
  /\ \E k \in DOMAIN packages, body \in PackagePatches :
       packages' = [packages EXCEPT ![k] = Patch(@, body)]
  /\ UNCHANGED << bookings, programs, calendar, eventSeq, req, resp, pure >>

\* DELETE /api/v1/packages/:id: the soft delete
PackageDelete ==
  /\ CatalogEdits < MaxCatalogEdits
  /\ \E k \in DOMAIN packages :
       packages' = [packages EXCEPT ![k] = Patch(@, [isActive |-> FALSE])]
  /\ UNCHANGED << bookings, programs, calendar, eventSeq, req, resp, pure >>

\* the requests on bookings together with the edits of the catalog, from an
\* empty store or one pending booking
InitCatalog ==
  /\ Init
  /\ \A id \in DOMAIN bookings : bookings[id].status = "pending"

SpecCatalog ==
  InitCatalog
  /\ [][Next \/ ProgramPatch \/ ProgramDelete \/ PackagePatch \/ PackageDelete]_vars

\* a second specification for the same requests, from an empty store
InitFresh == Init /\ bookings = << >>
SpecFresh == InitFresh /\ [][Next]_vars

\* ------------------------------------------------------------- claims: lifecycle
StepOf(r) == req'[r] # req[r]

ForwardEdges ==
  {<< "pending", "confirmed" >>, << "pending", "canceled" >>,
   << "confirmed", "canceled" >>}

\* C2: a booking's stored status starts as pending and changes only along
\* pending->confirmed, pending->canceled or confirmed->canceled, whatever the
\* requests and their interleaving; so a canceled booking stays canceled.
C2_StatusMovesForward ==
  [][\A id \in DOMAIN bookings' :
       IF id \in DOMAIN bookings
         THEN \/ bookings'[id].status = bookings[id].status
              \/ << bookings[id].status, bookings'[id].status >> \in ForwardEdges
         ELSE bookings'[id].status = "pending"]_vars

\* a confirm was refused on a canceled booking
C2_Witness ==
  /\ resp.kind = "confirm"
  /\ resp.result = ClientError("InvalidTransition", "canceled")
  /\ bookings[resp.id].status = "canceled"

\* C3: a confirm transaction commits only with the status it read still stored:
\* the one that read pending is the one that moves pending to confirmed, and a
\* confirm that commits after it has read confirmed, the first one's effect.
C3_ConfirmsSerialized ==
  [][\A r \in Requests :
       (req[r].kind = "confirm" /\ req[r].pc = "commit" /\ req'[r].pc = "upsertRead")
       => /\ bookings[req[r].id].status = req[r].data.status
          /\ req[r].data.status = "pending"
               => bookings'[req[r].id].status = "confirmed"]_vars

\* two confirms raced: one has committed, the other read pending before that
\* and is about to commit
C3_Witness ==
  \E r1, r2 \in Requests :
    /\ req[r1].kind = "confirm" /\ req[r1].pc = "upsertRead"
    /\ req[r2].kind = "confirm" /\ req[r2].pc = "commit"
    /\ req[r2].data.status = "pending"
    /\ bookings[req[r2].id].status = "confirmed"

\* C4: an update whose transaction reads a canceled booking answers 400 and
\* writes nothing; and no update transaction commits onto a booking that is
\* canceled by then, a cancel committed in between included.
C4_CanceledRejectsUpdate ==
  [][\A r \in Requests :
       (/\ req[r].kind = "update" /\ StepOf(r)
        /\ req[r].pc \in {"trxRead", "snapshot", "commit"}
        /\ Exists(req[r].id)
        /\ bookings[req[r].id].status = "canceled")
       => /\ bookings' = bookings
          /\ req[r].pc = "trxRead"
               => /\ req'[r].pc = "done"
                  /\ resp'.result = ClientError("CanceledBooking", "none")]_vars

\* an update was refused while the cancel that beat it is still at work
C4_Witness ==
  /\ resp.kind = "update"
  /\ resp.result = ClientError("CanceledBooking", "none")
  /\ \E r \in Requests : req[r].kind = "cancel" /\ req[r].pc = "deleteCalendar"

SameExcept(a, b, fields) == \A f \in DOMAIN a : f \in fields \/ a[f] = b[f]

\* the steps of a cancel on a booking its transaction found canceled: the
\* transition check passes, the request answers 200 unless the store gives up
\* on the transaction, and no stored field outside `fields` changes
RepeatedCancel(fields) ==
  \A r \in Requests :
    (req[r].kind = "cancel" /\ StepOf(r)) =>
      /\ (req[r].pc = "trxRead" /\ Exists(req[r].id)
          /\ bookings[req[r].id].status = "canceled")
           => req'[r].pc = "commit" /\ bookings' = bookings
      /\ (req[r].pc = "commit" /\ req[r].data.status = "canceled")
           => /\ SameExcept(bookings[req[r].id], bookings'[req[r].id], fields)
              /\ req'[r].pc = "done"
                   => resp'.result = ServerFault("TransactionAborted")
      /\ (req[r].pc \in {"deleteRead", "deleteCalendar", "deleteWrite"}
          /\ req[r].from = "canceled")
           => /\ SameExcept(bookings[req[r].id], bookings'[req[r].id], fields)
              /\ bookings'[req[r].id].status = "canceled"
              /\ req'[r].pc = "done" => resp'.result = Ok

\* C5 as claimed: canceling an already-canceled booking succeeds and changes no
\* stored field other than updatedAt.
C5_RepeatedCancelTouchesOnlyUpdatedAt == [][RepeatedCancel({"updatedAt"})]_vars

\* C5 as amended: canceling an already-canceled booking succeeds and changes no
\* stored field other than updatedAt and the calendar link (calendarEventId,
\* calendarHtmlLink), which it removes when one is still attached.
C5_RepeatedCancelKeepsBooking ==
  [][RepeatedCancel({"updatedAt", "calendarEventId", "calendarHtmlLink"})]_vars

\* a cancel that found the booking canceled has been answered 200
C5_Witness ==
  /\ resp.kind = "cancel"
  /\ resp.result = Ok
  /\ \E r \in Requests : req[r].kind = "cancel" /\ req[r].from = "canceled"
                         /\ req[r].pc = "deleteWrite"

\* C6: once a booking is canceled, no step of an update, confirm or
\* resend-confirmation request, their calendar synchronisation included,
\* changes any stored field of it.
C6_CanceledIsImmutable ==
  [][\A r \in Requests :
       (/\ req[r].kind \in {"update", "confirm", "resend"} /\ StepOf(r)
        /\ Exists(req[r].id)
        /\ bookings[req[r].id].status = "canceled")
       => bookings' = bookings]_vars

\* ------------------------------------------------------------- claims: snapshots
Selections(items, kind) ==
  UNION {{items[n][kind][i] : i \in 1..Len(items[n][kind])} : n \in 1..Len(items)}

MissingPrograms(items) ==
  {p.programId : p \in Selections(items, "programs")} \ DOMAIN programs

MissingPackages(items) ==
  {k.packageId : k \in Selections(items, "packages")} \ DOMAIN packages

\* a selection of a program of the catalog whose duration is none of its options
BadDurations(items) ==
  {p \in Selections(items, "programs") :
     /\ p.programId \in DOMAIN programs
     /\ \A i \in 1..Len(programs[p.programId].durationOptions) :
          programs[p.programId].durationOptions[i].durationMinutes
            # p.durationSnapshot}

Unresolvable(items) ==
  MissingPrograms(items) # {} \/ MissingPackages(items) # {} \/ BadDurations(items) # {}

\* C9: a create, or an update of an existing booking, whose items hold a
\* selection of an id absent from the catalog or of a duration that is not one
\* of the program's options answers 400 and leaves the store as it was; a
\* not-found error names an absent id, and no other duration is substituted.
C9_UnresolvableItemsRejected ==
  [][\A r \in Requests :
       (/\ req[r].kind \in {"create", "update"} /\ StepOf(r)
        /\ req[r].pc \in {"trxRead", "snapshot"}
        /\ "items" \in DOMAIN req[r].input
        /\ Unresolvable(req[r].input.items)
        /\ req[r].kind = "update" => Exists(req[r].id))
       => /\ bookings' = bookings
          /\ req[r].pc = "snapshot" => req'[r].pc = "done"
          /\ req'[r].pc = "done" =>
               /\ resp'.result.statusCode = 400
               /\ resp'.result.error = "ProgramNotFound"
                    => resp'.result.ref \in MissingPrograms(req[r].input.items)
               /\ resp'.result.error = "PackageNotFound"
                    => resp'.result.ref \in MissingPackages(req[r].input.items)
               /\ resp'.result.error = "DurationNotFound"
                    => BadDurations(req[r].input.items) # {}]_vars

\* an update with a duration between two options was refused
C9_Witness ==
  /\ resp.kind = "update"
  /\ resp.result = ClientError("DurationNotFound", "70")
  /\ Exists(resp.id)

\* ------------------------------------------------------------- claims: cursor tokens
\* the shape of a query's ordering chain: the range field applied (none, the
\* search key, the creation date) and the number of fields ordered by
Shape(params) ==
  << appliedRangeField(params),
     Len(orderChain(appliedRangeField(params), params.sortBy)) >>

\* C10: a token produced by a listing under one query plan and presented under
\* a plan whose applied range field or number of ordering fields differs is
\* answered 400, and its pivots are not used as the cursor of the other query.
C10_TokenBoundToPlanShape ==
  (ls.issuer # NoInput /\ Shape(ls.issuer) # Shape(ls.plan))
    => ls.out.statusCode = 400 /\ ls.out.startAfter = NoCursor

\* the number of orderBy calls of a query
ChainLength(params) == Len(orderChain(appliedRangeField(params), params.sortBy))

\* C11: a listing that is given a token whose pivot array is not as long as the
\* ordering chain of its query answers 400, reports the expected and the
\* received count, and runs no query with the token.
C11_PivotCountMismatchRejected ==
  (/\ ls.pageToken # NoData
   /\ ls.pageToken.chars \in {UrlSafe, Standard} /\ ls.pageToken.json = "object"
   /\ Len(ls.pageToken.pivot) # ChainLength(ls.plan))
    => /\ ls.out.statusCode = 400
       /\ ls.out.expectedPivot = ChainLength(ls.plan)
       /\ ls.out.got = Len(ls.pageToken.pivot)
       /\ ls.out.startAfter = NoCursor
       /\ ls.out.items = << >>

\* a token of a 2-field chain was presented to a 3-field chain and refused
C11_Witness ==
  /\ ls.pageToken # NoData
  /\ Len(ls.pageToken.pivot) = 2
  /\ ChainLength(ls.plan) = 3
  /\ ls.out.statusCode = 400

\* the stored record a token was built from: its last pivot is the document id
TokenRecord(token) ==
  CHOOSE rec \in ListRecords : Str(rec.id) = token.pivot[Len(token.pivot)]

\* C12: when the token of a page is presented again with the same query, the
\* cursor the listing revives from it is the ordering-chain field values of the
\* page's last record, timestamps as the store holds them.
C12_CursorRoundTrip ==
  (ls.pageToken # NoData /\ ls.issuer = ls.plan)
    => ls.out.startAfter =
         KeyOf(TokenRecord(ls.pageToken),
               orderChain(appliedRangeField(ls.plan), ls.plan.sortBy))

\* the ids of all the bookings a query matches, in its sort order
Matching(params) ==
  LET chain == orderChain(appliedRangeField(params), params.sortBy)
      all == Ordered(Selected(params, chain, NoCursor), chain, params.sortDir)
  IN  [i \in 1..Len(all) |-> all[i].id]

IndexIn(seq, x) == CHOOSE i \in 1..Len(seq) : seq[i] = x

\* the page of a query that starts after the first k of its matching bookings
PageAfter(params, k) ==
  LET all == Matching(params)
      n == Len(all) - k
  IN  [items |-> SubSeq(all, k + 1, k + (IF n < params.pageSize THEN n ELSE params.pageSize)),
       hasMore |-> n > params.pageSize]

IsPage(out, page) ==
  /\ out.statusCode = 200
  /\ out.items = page.items
  /\ out.hasMore = page.hasMore
  /\ (out.nextPageToken # NoData) <=> page.hasMore

\* C13: the first page of a query holds its first pageSize matching bookings,
\* and the page obtained by presenting a page's token with the same query
\* holds the bookings that follow that page's last one, in the sort order,
\* with hasMore and a token exactly when more remain; so following the tokens
\* visits every matching booking once.
C13_PagingVisitsEachOnce ==
  [][/\ (ls'.plan # NoInput /\ ls'.pageToken = NoData) => IsPage(ls'.out, PageAfter(ls'.plan, 0))
     /\ (/\ ls'.pageToken # NoData /\ ls'.issuer # NoInput
         /\ ls'.plan = ls.plan
         /\ ls.out.items \in Seq({m : m \in {Matching(ls.plan)[i] : i \in 1..Len(Matching(ls.plan))}}))
        => IsPage(ls'.out,
                  PageAfter(ls.plan,
                            IndexIn(Matching(ls.plan), ls.out.items[Len(ls.out.items)])))]_vars

\* the positions of a query's ordering chain that the listing revives
RevivedPositions(params) ==
  timestampPivotIndexes(appliedRangeField(params), params.sortBy)

\* a token that is no base64 text of a JSON object with a pivot array, or
\* whose pivot at a revived position is neither a number, a date string nor a
\* timestamp object
Malformed(token, params) ==
  \/ token.chars \notin {UrlSafe, Standard}
  \/ token.json # "object"
  \/ \E i \in RevivedPositions(params) \cap (1..Len(token.pivot)) :
       \/ token.pivot[i].t \in {"null"}
       \/ token.pivot[i].t = "string" /\ parseDate(token.pivot[i].s) < 0

\* C14: a listing that is given a malformed pageToken answers 400, never 500;
\* and a token written in the standard alphabet with padding gets the response
\* the same token gets in the URL-safe alphabet.
C14_MalformedTokenIsClientError ==
  ls.pageToken # NoData =>
    /\ Malformed(ls.pageToken, ls.plan) => ls.out.statusCode = 400
    /\ ls.out.statusCode # 500
    /\ ls.pageToken.chars = Standard
         => ls.out = ListBookings(ls.plan, [ls.pageToken EXCEPT !.chars = UrlSafe,
                                                                !.pad = FALSE])

\* a token that is no JSON was refused, and so was one with a null where a
\* timestamp is revived
C14_Witness ==
  /\ ls.pageToken # NoData
  /\ ls.out = MalformedToken
  /\ \/ ls.pageToken.json = "notJson"
     \/ /\ ls.pageToken.json = "object"
        /\ 1 \in RevivedPositions(ls.plan)
        /\ ls.pageToken.pivot[1] = Null

\* C15: the ordering chain of a listing is the range-filtered field when a
\* range predicate is applied, then the requested sort field if it is another
\* field, then the document id; so the field a range predicate is on is the
\* first sort key.
C15_RangeFieldIsFirstSortKey ==
  ls.plan # NoInput =>
    LET chain == orderChain(appliedRangeField(ls.plan), ls.plan.sortBy)
        range == rangePredicateField(ls.plan)
    IN  chain = (IF range # "null" THEN << range >> ELSE << >>)
                \o (IF ls.plan.sortBy # range THEN << ls.plan.sortBy >> ELSE << >>)
                \o << "__name__" >>

\* C16: for every query, expectedPivotCount is the number of fields of the
\* ordering chain and the length of the pivot array built for a token from any
\* record; with a date range and sortBy = "name" the chain is
\* [createdAt, name, id] and the count is 3.
C16_PivotCountIsChainLength ==
  ls.plan # NoInput =>
    LET range == appliedRangeField(ls.plan)
        sortBy == ls.plan.sortBy
        chain == orderChain(range, sortBy)
    IN  /\ expectedPivotCount(range, sortBy) = Len(chain)
        /\ \A rec \in ListRecords :
             Len(nextPivot(range, sortBy, rec)) = expectedPivotCount(range, sortBy)
        /\ ls.out.nextPageToken # NoData
             => Len(ls.out.nextPageToken.pivot) = expectedPivotCount(range, sortBy)
        /\ (range = "createdAt" /\ sortBy = "name")
             => /\ chain = << "createdAt", "name", "__name__" >>
                /\ expectedPivotCount(range, sortBy) = 3

\* a listing with a date range and another sort field issued a token of 3 pivots
C16_Witness ==
  /\ ls.plan # NoInput
  /\ appliedRangeField(ls.plan) = "createdAt"
  /\ ls.plan.sortBy = "status"
  /\ ls.out.nextPageToken # NoData
  /\ Len(ls.out.nextPageToken.pivot) = 3

\* C17: a listing given q together with from or to puts no predicate on
\* createdAt, filters by the prefix range (>=, <) on the search key, the field
\* it orders by first, and carries the notice in its metadata; the notice is
\* there exactly when q and from or to were given.
C17_SearchIgnoresDates ==
  ls.plan # NoInput =>
    LET dates == ls.plan.from # NoDate \/ ls.plan.to # NoDate
        search == ls.plan.q # NoQ
    IN  /\ (ls.out.statusCode = 200) => (ls.out.notice <=> (search /\ dates))
        /\ (search /\ dates) =>
             /\ \A w \in wherePredicates(ls.plan) : w.field # "createdAt"
             /\ {w \in wherePredicates(ls.plan) : w.op # "=="}
                  = {[field |-> "searchKey", op |-> o] : o \in {">=", "<"}}


\* ------------------------------------------------------------- claims: immutability of snapshots
ReplacesItems(r) ==
  /\ req[r].kind = "update" /\ req[r].pc = "commit" /\ StepOf(r)
  /\ "items" \in DOMAIN req[r].input

\* C18: once a booking's items are stored, no edit of the catalog (update or
\* soft delete of a program or package) and no confirm, cancel or
\* update-details request without items changes the booking's stored item
\* snapshots or its totals; they change only when an update replaces the items.
C18_SnapshotsImmutable ==
  [][\A id \in DOMAIN bookings \cap DOMAIN bookings' :
       (\/ bookings'[id].items # bookings[id].items
        \/ bookings'[id].totals # bookings[id].totals)
       => \E r \in Requests : req[r].id = id /\ ReplacesItems(r)]_vars


\* ------------------------------------------------------------- claims: contact
\* C19: in every reachable state every stored booking has a contact with a
\* name and an email, whatever create, quick-create and update-details requests
\* the schemas accepted, an update with a partial contact object included.
C19_ContactHasNameAndEmail ==
  \A id \in DOMAIN bookings :
    {"name", "email"} \subseteq DOMAIN bookings[id].contact


\* ------------------------------------------------------------- claims: booking not found
\* C20: an update-details, confirm or cancel request for a booking id that is
\* not in the store is answered with a client error (a 4xx status code), not a
\* server fault, and creates or modifies no record.
C20_NotFoundIsClientError ==
  [][\A r \in Requests :
       (/\ req[r].kind \in {"update", "confirm", "cancel"}
        /\ req[r].pc = "trxRead" /\ StepOf(r)
        /\ ~Exists(req[r].id))
       => /\ bookings' = bookings
          /\ req'[r].pc = "done"
          /\ IsClientError(resp'.result)]_vars


\* ------------------------------------------------------------- claims: every request is answered
\* the steps of the handler that serves request r, once the request has arrived
Continue(r) ==
  \/ CreateSnapshot(r) \/ CreateAdd(r) \/ QuickAdd(r) \/ QuickEvent(r)
  \/ UpdateRead(r) \/ UpdateSnapshot(r) \/ UpdateCommit(r)
  \/ ConfirmRead(r) \/ ConfirmCommit(r) \/ CancelRead(r) \/ CancelCommit(r)
  \/ UpsertRead(r) \/ UpsertCalendar(r) \/ UpsertCalendarFails(r) \/ UpsertWrite(r)
  \/ DeleteRead(r) \/ DeleteCalendar(r) \/ DeleteWrite(r)

\* every awaited call of a handler returns or throws: a handler that can take
\* a step takes one
SpecLive ==
  InitFresh /\ [][Next]_vars /\ \A r \in Requests : WF_vars(Continue(r))

\* C21: every create, confirm and cancel request is eventually answered, with
\* the booking or an error, also when the template of its email is not
\* configured, the send fails or the calendar synchronisation fails.
C21_RequestsAreAnswered ==
  \A r \in Requests :
    (req[r].kind \in {"create", "confirm", "cancel"}) ~> (req[r].kind = "done")


\* ------------------------------------------------------------- claims: status filter
RECURSIVE Alternatives(_)
\* the values a status parameter lists, in the order given
Alternatives(status) ==
  IF status = << >> THEN << >>
  ELSE (IF Head(status).s = "" THEN << >> ELSE << Head(status).s >>)
       \o Alternatives(Tail(status))

\* C22: a status filter with more than 10 alternatives is not rejected, the
\* query filters on exactly the first 10 in the order given; one value gives
\* an equality predicate, 2 to 10 values an 'in' predicate over all of them.
C22_StatusFilterTruncated ==
  sf.out # NoData =>
    LET list == Alternatives(sf.status)
    IN  /\ Len(list) > 10 =>
              sf.out = [op |-> "in", value |-> [i \in 1..10 |-> list[i]]]
        /\ Len(list) = 1 => sf.out = [op |-> "==", value |-> list]
        /\ Len(list) \in 2..10 => sf.out = [op |-> "in", value |-> list]

\* a filter of eleven alternatives or more was given
C22_Witness ==
  sf.out # NoData /\ Len(Alternatives(sf.status)) > 10


\* ------------------------------------------------------------- claims: the transition transaction
Target(r) == IF req[r].kind = "confirm" THEN "confirmed" ELSE "canceled"

\* C23: the transaction of a confirm or cancel request validates the transition
\* against the status it read and writes only status and updatedAt: every
\* other stored field of the booking is the same after it, it commits only on
\* the status it read, and nothing is written when validation fails.
C23_TransitionWritesOnlyStatus ==
  [][\A r \in Requests :
       (req[r].kind \in {"confirm", "cancel"} /\ StepOf(r)) =>
         /\ req[r].pc = "trxRead" =>
              /\ bookings' = bookings
              /\ (Exists(req[r].id)
                  /\ Target(r) \notin allowed(bookings[req[r].id].status))
                   => /\ req'[r].pc = "done"
                      /\ resp'.result.error = "InvalidTransition"
                      /\ IsClientError(resp'.result)
              /\ req'[r].pc = "commit" => req'[r].data = bookings[req[r].id]
         /\ req[r].pc = "commit" =>
              /\ DOMAIN bookings' = DOMAIN bookings
              /\ SameExcept(bookings[req[r].id], bookings'[req[r].id],
                            {"status", "updatedAt"})
              /\ bookings' # bookings =>
                   /\ bookings[req[r].id].status = req[r].data.status
                   /\ Target(r) \in allowed(req[r].data.status)
                   /\ bookings'[req[r].id].status = Target(r)]_vars

\* the transaction of a confirm or a cancel has committed on a booking that
\* carries a note
C23_Witness ==
  \E r \in Requests :
    /\ req[r].kind \in {"confirm", "cancel"}
    /\ req[r].pc \in {"upsertRead", "deleteRead"}
    /\ bookings[req[r].id].status = Target(r)
    /\ bookings[req[r].id].note # ""


\* ------------------------------------------------------------- claims: revived positions
\* the fields the store holds as timestamps
TimestampFields == {"createdAt", "updatedAt", "arrivalAt"}

\* C24: for every query plan the pivot positions the listing revives into
\* timestamps are exactly the positions of the ordering chain whose field is
\* timestamp-valued, range field or sort field; no other position is revived.
C24_RevivesTimestampPositions ==
  ls.plan # NoInput =>
    LET chain == orderChain(appliedRangeField(ls.plan), ls.plan.sortBy)
    IN  RevivedPositions(ls.plan) =
          {i \in 1..Len(chain) : chain[i] \in TimestampFields}


\* ------------------------------------------------------------- claims: the extra record
Least(a, b) == IF a < b THEN a ELSE b

\* the records that remain after the cursor of the listing in ls, in its order
Remaining ==
  LET chain == orderChain(appliedRangeField(ls.plan), ls.plan.sortBy)
  IN  Ordered(Selected(ls.plan, chain, ls.out.startAfter), chain, ls.plan.sortDir)

StoreGaveUp == ServerFault("TransactionAborted")

\* C26: when a confirm and a cancel run concurrently on a pending booking, in
\* every interleaving the cancel is never refused: its transaction passes the
\* validation and commits canceled (the store giving up on the transaction
\* aside), and the stored status stays canceled from then on; a confirm whose
\* transaction reads the booking after that is refused with the
\* invalid-transition client error, and one that read it before cannot commit.
C26_CancelWinsTheRace ==
  [][\A r \in Requests : \A id \in DOMAIN bookings :
       (req[r].id = id /\ StepOf(r)) =>
         /\ bookings[id].status = "canceled" => bookings'[id].status = "canceled"
         /\ req[r].kind = "cancel" =>
              /\ req[r].pc = "trxRead" => req'[r].pc = "commit"
              /\ req[r].pc = "commit" =>
                   /\ bookings' # bookings => bookings'[id].status = "canceled"
                   /\ bookings' = bookings =>
                        \/ req'[r].pc = "trxRead"
                        \/ req'[r].pc = "done" /\ resp'.result = StoreGaveUp
              /\ req'[r].pc = "done" => resp'.result \in {Ok, StoreGaveUp}
         /\ (req[r].kind = "confirm" /\ bookings[id].status = "canceled") =>
              /\ req[r].pc = "trxRead" =>
                   /\ req'[r].pc = "done"
                   /\ resp'.result.error = "InvalidTransition"
                   /\ IsClientError(resp'.result)
              /\ req[r].pc = "commit" => bookings' = bookings]_vars

\* the race: a confirm read the booking pending, the cancel committed before
\* the confirm could
C26_Witness ==
  \E r1, r2 \in Requests :
    /\ req[r1].kind = "confirm" /\ req[r1].pc = "commit"
    /\ req[r1].data.status = "pending"
    /\ req[r2].kind = "cancel" /\ req[r2].pc = "deleteRead"
    /\ req[r2].from = "pending"
    /\ bookings[req[r1].id].status = "canceled"


\* ------------------------------------------------------------- claims: calendar of a canceled booking
InFlight(r) == req[r].pc \notin {"idle", "done", "hung"}

\* a cancel and a confirm, update or resend-confirmation are at work on the
\* same booking
Overlap ==
  \E r1, r2 \in Requests :
    /\ req[r1].kind = "cancel" /\ InFlight(r1)
    /\ req[r2].kind \in {"confirm", "update", "resend"} /\ InFlight(r2)
    /\ req[r1].id = req[r2].id

Quiet == \A r \in Requests : ~InFlight(r)

\* the requests on an empty store or one pending booking, every template
\* configured, each handler taking its steps
InitRace == InitCatalog /\ config.templates = Templates
SpecRace ==
  InitRace /\ [][Next]_vars /\ \A r \in Requests : WF_vars(Continue(r))

\* C27: once a cancel and the confirm, update and resend-confirmation requests
\* that ran concurrently with it have all finished, the canceled booking has
\* no calendarEventId and no event created for it is left in the calendar.
C27_CanceledHasNoCalendarEvent ==
  [](Overlap =>
       [](Quiet => \A id \in DOMAIN bookings :
                     bookings[id].status = "canceled"
                       => /\ bookings[id].calendarEventId = NoEvent
                          /\ calendar = {}))


\* ------------------------------------------------------------- claims: update without items
\* C28: an update-details request that supplies no items leaves the stored
\* items, partySize and totals of the booking as they were, a booking made by
\* the quick-reservation operation included; only the fields named in the
\* request and updatedAt change.
C28_UpdateWithoutItemsKeepsItems ==
  [][\A r \in Requests :
       (/\ req[r].kind = "update" /\ req[r].pc = "commit" /\ StepOf(r)
        /\ "items" \notin DOMAIN req[r].input)
       => SameExcept(bookings[req[r].id], bookings'[req[r].id],
                     DOMAIN req[r].input \cup {"updatedAt"})]_vars


\* ------------------------------------------------------------- claims: paging terminates
\* how many records a listing has left after its cursor
Left(l) ==
  LET chain == orderChain(appliedRangeField(l.plan), l.plan.sortBy)
  IN  Cardinality(Selected(l.plan, chain, l.out.startAfter))

\* the listing in ls' presents, with the same query, the token the response in
\* ls returned
FollowsToken ==
  /\ ls.plan # NoInput /\ ls.out.statusCode = 200
  /\ ls'.plan = ls.plan /\ ls'.issuer = ls.plan
  /\ ls'.pageToken = ls.out.nextPageToken

\* C29: paging terminates: presenting the nextPageToken of a response with the
\* same query gives a page that is not the same page again and leaves fewer
\* records after its cursor, so hasMore = false is reached after finitely many
\* requests.
C29_PagingTerminates ==
  [][FollowsToken =>
       /\ ls'.out.statusCode = 200
       /\ ls'.out.items # ls.out.items
       /\ Left(ls') < Left(ls)]_vars


\* ------------------------------------------------------------- claims: inactive catalog items
\* the selections of the items that name a program or package that the soft
\* delete of the catalog has marked inactive
InactiveSelected(items) ==
  ({p.programId : p \in Selections(items, "programs")}
     \cap {p \in DOMAIN programs : ~programs[p].isActive})
  \cup ({k.packageId : k \in Selections(items, "packages")}
           \cap {k \in DOMAIN packages : ~packages[k].isActive})

\* C30: snapshotting a program or package that is inactive fails: a create or
\* an item-replacing update that takes its snapshot while an item it selects
\* is inactive ends there with an error and stores nothing.
C30_InactiveItemsRejected ==
  [][\A r \in Requests :
       (/\ req[r].kind \in {"create", "update"} /\ req[r].pc = "snapshot"
        /\ StepOf(r)
        /\ InactiveSelected(req[r].input.items) # {})
       => /\ req'[r].pc = "done"
          /\ resp'.result.statusCode >= 400
          /\ bookings' = bookings]_vars

====
